---------------------------- MODULE Spec2Model ----------------------------
(***************************************************************************)
(* A model of graph-scripts.                                               *)
(*                                                                         *)
(* Part I  (specification Spec): graph_adjacency_list.py.  An              *)
(*   AdjacencyGraph is built from text records by parseLine and rendered   *)
(*   by GraphPrinter.printGraph through DotPrinter.printNode or            *)
(*   GraphmlPrinter.printNode.                                             *)
(* Part II (specification SpecMvn): mvndepgraph.py.  pydot graphs are      *)
(*   version-squashed, merged, analysed and cleaned by GraphProcessor.     *)
(*                                                                         *)
(* Strings are modelled as sequences of one-character strings wherever the *)
(* code splits or strips them, so that split/strip are computed and not    *)
(* assumed.                                                                *)
(***************************************************************************)
EXTENDS Integers, Sequences, FiniteSets, TLC

VARIABLES
  \* ---- Part I: graph_adjacency_list.py
  heap,      \* the Node objects ever created, by object identity 1..Len(heap)
  nodes,     \* AdjacencyGraph.nodes: a list of Node references
  lines,     \* the records handed to parseLine so far (history)
  printer,   \* the GraphPrinter constructed by main, or NoPrinter
  passes,    \* what each printGraph call wrote to its file, in call order
  \* ---- Part II: mvndepgraph.py
  loaded,    \* the graphs as graph_from_dot_file returned them (history)
  graphs,    \* process_graphs' list of input pydot graphs
  squashed,  \* squashed[i]: do_squash_versions has run on graphs[i]
  vsets,     \* the Python set objects held in 'versions' attributes, by identity
  vsets0,    \* vsets as it was when merge_graphs was called (history)
  merged,    \* the graph merge_graphs returned (final_graph), when phase # "load"
  analysis,  \* what intersecting_nodes / non_intersecting_nodes_per_graph returned
  palette,   \* GraphProcessor.DEFAULT_COLORS['non_intersect_list']
  phase      \* position in process_graphs: "load", "merged", "analyzed", "cleaned"

adjVars == <<heap, nodes, lines, printer, passes>>
mvnVars == <<loaded, graphs, squashed, vsets, vsets0, merged, analysis, palette, phase>>
vars == <<heap, nodes, lines, printer, passes,
          loaded, graphs, squashed, vsets, vsets0, merged, analysis, palette, phase>>

(***************************************************************************)
(* Bounds of the model.                                                    *)
(***************************************************************************)
MaxLines == 2      \* records parsed by one parseFile
MaxRenders == 2    \* printGraph calls on one graph
MaxGraphs == 3     \* input graphs of one process_graphs run

(***************************************************************************)
(* Generic helpers.                                                        *)
(***************************************************************************)
Range(s) == {s[i] : i \in 1..Len(s)}

RECURSIVE SeqSum(_)
SeqSum(s) == IF s = <<>> THEN 0 ELSE Head(s) + SeqSum(Tail(s))

\* how many entries of s satisfy Test
Count(s, Test(_)) == Cardinality({i \in 1..Len(s) : Test(s[i])})

(***************************************************************************)
(*                                PART I                                   *)
(***************************************************************************)

\* The characters of the records: three name characters, the two separators
\* and a blank.
A == <<"A">>
B == <<"B">>
C == <<"C">>
EmptyName == <<>>

\* Records given to parseLine: blank lines, a bare key, a key with an empty
\* right-hand side, a self reference, single edges that form cycles and
\* re-converging paths, a duplicated neighbour and a line with surrounding
\* white space.
Lines ==
  { <<>>,
    <<" ">>,
    <<"A">>,
    <<"A", "=">>,
    <<"A", "=", "A">>,
    <<"A", "=", "B">>,
    <<"B", "=", "A">>,
    <<"B", "=", "C">>,
    <<"C", "=", "A">>,
    <<"A", "=", "B", ",", "C">>,
    <<"A", "=", "B", ",", "B">>,
    <<" ", "C", "=", "B", " ">> }

IsSpace(c) == c = " "

\* str.strip()
RECURSIVE LStrip(_)
LStrip(s) == IF s # <<>> /\ IsSpace(Head(s)) THEN LStrip(Tail(s)) ELSE s

RECURSIVE RStrip(_)
RStrip(s) ==
  IF s # <<>> /\ IsSpace(s[Len(s)]) THEN RStrip(SubSeq(s, 1, Len(s) - 1)) ELSE s

Strip(s) == RStrip(LStrip(s))

\* str.split(sep) for a one-character separator: always at least one piece
RECURSIVE SplitFrom(_, _, _, _)
SplitFrom(s, sep, cur, acc) ==
  IF s = <<>> THEN Append(acc, cur)
  ELSE IF Head(s) = sep THEN SplitFrom(Tail(s), sep, <<>>, Append(acc, cur))
  ELSE SplitFrom(Tail(s), sep, Append(cur, Head(s)), acc)

Split(s, sep) == SplitFrom(s, sep, <<>>, <<>>)

\* Node.__init__
NewNode(name) ==
  [name |-> name, color |-> "None", out_edges |-> <<>>, in_edges |-> <<>>,
   printed |-> FALSE]

\* AdjacencyGraph.matchLine: None is the empty tuple, else <<key, vals>>
matchLine(line) ==
  LET kv == Split(Strip(line), "=")
  IN  IF Len(kv) = 0 THEN <<>>
      ELSE <<kv[1], IF Len(kv) > 1 THEN Split(kv[2], ",") ELSE <<>> >>

\* AdjacencyGraph.makeNode on the graph g = [heap, nodes]: the resulting graph
\* and the Node returned.  A created Node is not put into g.nodes here.
makeNode(g, name) ==
  LET f == SelectSeq(g.nodes, LAMBDA y : g.heap[y].name = name)
  IN  IF Len(f) = 0
        THEN [g |-> [g EXCEPT !.heap = Append(@, NewNode(name))],
              n |-> Len(g.heap) + 1]
        ELSE [g |-> g, n |-> f[1]]

\* Node.add_out_edge (with Node.add_in_edge)
add_out_edge(g, src, dest) ==
  [g EXCEPT !.heap[src].out_edges = Append(@, dest),
            !.heap[dest].in_edges = Append(@, src)]

\* the loop of parseLine over the neighbours vals[i..]
RECURSIVE parseNeighbors(_, _, _, _)
parseNeighbors(g, src, vals, i) ==
  IF i > Len(vals) THEN g
  ELSE LET m == makeNode(g, vals[i])
           dest == m.n
           g2 == IF dest # src
                   THEN [add_out_edge(m.g, src, dest) EXCEPT !.nodes = Append(@, dest)]
                   ELSE m.g
       IN  parseNeighbors(g2, src, vals, i + 1)

\* AdjacencyGraph.parseLine
parseLine(g, line) ==
  LET matchPair == matchLine(line)
  IN  IF Len(matchPair) = 0 THEN g
      ELSE LET m == makeNode(g, matchPair[1])
               g1 == [m.g EXCEPT !.nodes = Append(@, m.n)]
           IN  parseNeighbors(g1, m.n, matchPair[2], 1)


(***************************************************************************)
(* Rendering.  The file written by a printGraph call is a sequence of      *)
(* statements: the header, a node, an edge, the footer.                    *)
(***************************************************************************)
HeaderStmt == [kind |-> "header", name |-> <<>>, to |-> <<>>]
FooterStmt == [kind |-> "footer", name |-> <<>>, to |-> <<>>]
NodeStmt(nodeName) == [kind |-> "node", name |-> nodeName, to |-> <<>>]
EdgeStmt(nodeFrom, nodeTo) == [kind |-> "edge", name |-> nodeFrom, to |-> nodeTo]

\* GraphPrinter.makeNodeName: '%s' % (name) of a string
makeNodeName(name) == name

\* The printers main can construct: --format, --root (None when absent) and
\* --suppress-roots.
NoRoot == [given |-> FALSE, name |-> <<>>]
Root(name) == [given |-> TRUE, name |-> name]
Roots == {NoRoot, Root(EmptyName), Root(A), Root(B), Root(C)}
Formats == {"dot", "graphml"}
NoPrinter == [format |-> "None", root |-> NoRoot, suppressRoots |-> FALSE]
Printers == [format : Formats, root : Roots, suppressRoots : BOOLEAN]

\* A render state r = [heap, file].
RECURSIVE DotPrintNode(_, _, _), DotPrintEdges(_, _, _, _),
          GraphmlPrintNode(_, _, _), GraphmlPrintEdges(_, _, _, _)

\* DotPrinter.printNode
DotPrintNode(r, node, skipNode) ==
  IF r.heap[node].printed THEN r
  ELSE LET r1 == [r EXCEPT !.heap[node].printed = TRUE]
           nodeName == makeNodeName(r1.heap[node].name)
           r2 == IF ~skipNode
                   THEN [r1 EXCEPT !.file = Append(@, NodeStmt(nodeName))]
                   ELSE r1
       IN  DotPrintEdges(r2, node, skipNode, 1)

\* the loop of DotPrinter.printNode, with skipNode handed on to the children
DotPrintEdgesSkipChildren(r, node, skipNode, i) ==
  IF i > Len(r.heap[node].out_edges) THEN r
  ELSE LET x == r.heap[node].out_edges[i]
           r1 == DotPrintNode(r, x, skipNode)
           r2 == IF ~skipNode
                   THEN [r1 EXCEPT !.file = Append(@, EdgeStmt(makeNodeName(r1.heap[node].name),
                                                               makeNodeName(r1.heap[x].name)))]
                   ELSE r1
       IN  DotPrintEdges(r2, node, skipNode, i + 1)

\* the loop of DotPrinter.printNode, with the edge written before the
\* recursive call and only when the target is not yet visited
DotPrintEdgesTreeOnly(r, node, skipNode, i) ==
  IF i > Len(r.heap[node].out_edges) THEN r
  ELSE LET x == r.heap[node].out_edges[i]
           r1 == IF ~skipNode /\ ~r.heap[x].printed
                   THEN [r EXCEPT !.file = Append(@, EdgeStmt(makeNodeName(r.heap[node].name),
                                                              makeNodeName(r.heap[x].name)))]
                   ELSE r
           r2 == DotPrintNode(r1, x, FALSE)
       IN  DotPrintEdges(r2, node, skipNode, i + 1)

\* the loop of DotPrinter.printNode over node.out_edges[i..]
DotPrintEdges(r, node, skipNode, i) ==
  IF i > Len(r.heap[node].out_edges) THEN r
  ELSE LET x == r.heap[node].out_edges[i]
           r1 == DotPrintNode(r, x, FALSE)
           r2 == IF ~skipNode
                   THEN [r1 EXCEPT !.file = Append(@, EdgeStmt(makeNodeName(r1.heap[node].name),
                                                               makeNodeName(r1.heap[x].name)))]
                   ELSE r1
       IN  DotPrintEdges(r2, node, skipNode, i + 1)

\* GraphmlPrinter.printNode that leaves out an edge whose target was already
\* visited
GraphmlPrintEdgesNoRevisit(r, node, skipNode, i) ==
  IF i > Len(r.heap[node].out_edges) THEN r
  ELSE LET x == r.heap[node].out_edges[i]
           seen == r.heap[x].printed
           r1 == GraphmlPrintNode(r, x, FALSE)
           r2 == IF ~skipNode /\ ~seen
                   THEN [r1 EXCEPT !.file = Append(@, EdgeStmt(makeNodeName(r1.heap[node].name),
                                                               makeNodeName(r1.heap[x].name)))]
                   ELSE r1
       IN  GraphmlPrintEdges(r2, node, skipNode, i + 1)

\* the loop of GraphmlPrinter.printNode over node.out_edges[i..]
GraphmlPrintEdges(r, node, skipNode, i) ==
  IF i > Len(r.heap[node].out_edges) THEN r
  ELSE LET x == r.heap[node].out_edges[i]
           r1 == GraphmlPrintNode(r, x, FALSE)
           r2 == IF ~skipNode
                   THEN [r1 EXCEPT !.file = Append(@, EdgeStmt(makeNodeName(r1.heap[node].name),
                                                               makeNodeName(r1.heap[x].name)))]
                   ELSE r1
       IN  GraphmlPrintEdges(r2, node, skipNode, i + 1)

\* GraphmlPrinter.printNode
GraphmlPrintNode(r, node, skipNode) ==
  IF r.heap[node].printed THEN r
  ELSE LET r1 == [r EXCEPT !.heap[node].printed = TRUE]
           nodeName == makeNodeName(r1.heap[node].name)
           r2 == IF ~skipNode
                   THEN [r1 EXCEPT !.file = Append(@, NodeStmt(nodeName))]
                   ELSE r1
       IN  GraphmlPrintEdges(r2, node, skipNode, 1)

\* self.printNode, dispatched on the printer's class
printNode(p, r, node, skipNode) ==
  IF p.format = "dot" THEN DotPrintNode(r, node, skipNode)
  ELSE GraphmlPrintNode(r, node, skipNode)

\* root_filter of printGraph
root_filter(p, h, x) ==
  IF p.root.given /\ p.root.name # <<>>
    THEN h[x].name = p.root.name
    ELSE Len(h[x].in_edges) = 0

\* filter(root_filter, graph.nodes): the entry list of a render
EntryList(p, h, ns) == SelectSeq(ns, LAMBDA x : root_filter(p, h, x))

\* the loop of printGraph over the entry list
RECURSIVE printEntries(_, _, _, _)
printEntries(p, r, entries, i) ==
  IF i > Len(entries) THEN r
  ELSE printEntries(p, printNode(p, r, entries[i], p.suppressRoots), entries, i + 1)

\* GraphPrinter.printGraph on the heap h and graph.nodes ns
printGraph(p, h, ns) ==
  LET r0 == [heap |-> h, file |-> <<HeaderStmt>>]
      r1 == printEntries(p, r0, EntryList(p, h, ns), 1)
  IN  [r1 EXCEPT !.file = Append(@, FooterStmt)]

(***************************************************************************)
(* Actions of Part I, in the order of __main__: the printer is constructed,*)
(* the file is parsed line by line, the graph is printed.                  *)
(***************************************************************************)
\* DotPrinter(root, suppressRoots) / GraphmlPrinter(root, suppressRoots)
NewPrinter ==
  /\ printer = NoPrinter
  /\ \E p \in Printers : printer' = p
  /\ UNCHANGED <<heap, nodes, lines, passes>>
  /\ UNCHANGED mvnVars

\* one iteration of parseFile: graph.parseLine(line)
ParseLine ==
  /\ printer # NoPrinter
  /\ passes = <<>>
  /\ Len(lines) < MaxLines
  /\ \E line \in Lines :
       LET g == parseLine([heap |-> heap, nodes |-> nodes], line)
       IN  /\ heap' = g.heap
           /\ nodes' = g.nodes
           /\ lines' = Append(lines, line)
  /\ UNCHANGED <<printer, passes>>
  /\ UNCHANGED mvnVars

\* printer.printGraph(graph, outputFile)
PrintGraph ==
  /\ printer # NoPrinter
  /\ Len(passes) < MaxRenders
  /\ LET r == printGraph(printer, heap, nodes)
     IN  /\ heap' = r.heap
         /\ passes' = Append(passes, r.file)
  /\ UNCHANGED <<nodes, lines, printer>>
  /\ UNCHANGED mvnVars

InitAdj ==
  /\ heap = <<>>
  /\ nodes = <<>>
  /\ lines = <<>>
  /\ printer = NoPrinter
  /\ passes = <<>>

(***************************************************************************)
(* Claims of Part I.                                                       *)
(***************************************************************************)
NodeIds == 1..Len(heap)
NameOf(n) == heap[n].name

\* the names a record mentions: its key and its neighbours
MentionedIn(line) ==
  LET m == matchLine(line)
  IN  IF Len(m) = 0 THEN {} ELSE {m[1]} \cup Range(m[2])

Mentioned == UNION {MentionedIn(lines[i]) : i \in 1..Len(lines)}

\* how often a name is listed in graph.nodes
TimesListed(name) == Count(nodes, LAMBDA y : heap[y].name = name)

\* statements of a written file
NodeCount(file, name) ==
  Count(file, LAMBDA st : st.kind = "node" /\ st.name = name)
EdgeCount(file, from, to) ==
  Count(file, LAMBDA st : st.kind = "edge" /\ st.name = from /\ st.to = to)
Written(file) == {st \in Range(file) : st.kind \in {"node", "edge"}}

\* the entry nodes of a render with the constructed printer, and what is
\* reachable from them along out-edges
Entries == Range(EntryList(printer, heap, nodes))

RECURSIVE ReachFrom(_)
ReachFrom(S) ==
  LET T == S \cup UNION {Range(heap[n].out_edges) : n \in S}
  IN  IF T = S THEN S ELSE ReachFrom(T)

Reachable == ReachFrom(Entries)

\* every entry of n's out-edge list is in the file as an edge exactly once
OutEdgesWrittenOnce(file, n) ==
  \A t \in NodeIds :
    EdgeCount(file, NameOf(n), NameOf(t)) = Count(heap[n].out_edges, LAMBDA x : x = t)

\* C1: every name mentioned by a parsed record is listed exactly once in
\* graph.nodes.
C1_ListedExactlyOnce ==
  \A name \in Mentioned : TimesListed(name) = 1

\* C2: every printGraph call on a graph emits the same nodes and edges as the
\* first call did (the visited markers being cleared before each traversal).
C2_EveryRenderLikeTheFirst ==
  \A i \in 1..Len(passes) : Written(passes[i]) = Written(passes[1])

CycleLines == << <<"A", "=", "B">>, <<"B", "=", "A">> >>

CycleFullyWritten(file) ==
  /\ NodeCount(file, A) = 1
  /\ NodeCount(file, B) = 1
  /\ EdgeCount(file, A, B) = 1
  /\ EdgeCount(file, B, A) = 1

\* C3 as stated: the first render of the cycle A=B, B=A without root
\* suppression writes A once, B once and both edges, with auto-detected roots
\* as with the explicit root A or B.
C3_CycleInEveryRootMode ==
  (/\ lines = CycleLines
   /\ Len(passes) >= 1
   /\ ~printer.suppressRoots
   /\ printer.root \in {NoRoot, Root(A), Root(B)})
  => CycleFullyWritten(passes[1])

\* C3 amended: with the explicit root A or B the render of the cycle writes A
\* once, B once and each of the two edges once; with auto-detected roots the
\* cycle has no node without in-edges and the render writes no node and no
\* edge.
C3_CycleByRootMode ==
  (/\ lines = CycleLines
   /\ Len(passes) >= 1
   /\ ~printer.suppressRoots)
  => /\ printer.root \in {Root(A), Root(B)} => CycleFullyWritten(passes[1])
     /\ printer.root = NoRoot => Written(passes[1]) = {}

C3_Witness ==
  /\ lines = CycleLines
  /\ Len(passes) >= 1
  /\ printer = [format |-> "dot", root |-> Root(B), suppressRoots |-> FALSE]
  /\ CycleFullyWritten(passes[1])

\* C4: in the render of a parsed graph without root suppression every node is
\* written at most once, every node reachable from an entry node exactly once,
\* and each entry of a written node's out-edge list is written as an edge
\* exactly once, also when its target had been visited before.
C4_NodesOnceEdgesAlways ==
  (Len(passes) >= 1 /\ ~printer.suppressRoots)
  => /\ \A n \in NodeIds : NodeCount(passes[1], NameOf(n)) <= 1
     /\ \A n \in Reachable : NodeCount(passes[1], NameOf(n)) = 1
     /\ \A n \in NodeIds :
          NodeCount(passes[1], NameOf(n)) = 1 => OutEdgesWrittenOnce(passes[1], n)

\* a render in which a node is reached along two paths and a node has a
\* duplicated out-edge or lies on a cycle
C4_Witness ==
  /\ Len(passes) >= 1
  /\ ~printer.suppressRoots
  /\ printer.format = "graphml"
  /\ \E s1, s2, t \in Reachable :
       /\ s1 # s2
       /\ t \in Range(heap[s1].out_edges)
       /\ t \in Range(heap[s2].out_edges)
       /\ EdgeCount(passes[1], NameOf(s1), NameOf(t)) = 1
       /\ EdgeCount(passes[1], NameOf(s2), NameOf(t)) = 1
       /\ NodeCount(passes[1], NameOf(t)) = 1

\* C5: in the render of a parsed graph with root suppression no entry node is
\* written, no out-edge of an entry node is written, and every other node
\* reachable from an entry node is written exactly once with each entry of its
\* out-edge list.
C5_SuppressedRoots ==
  (Len(passes) >= 1 /\ printer.suppressRoots)
  => /\ \A e \in Entries :
          /\ NodeCount(passes[1], NameOf(e)) = 0
          /\ \A t \in NodeIds : EdgeCount(passes[1], NameOf(e), NameOf(t)) = 0
     /\ \A n \in Reachable \ Entries :
          /\ NodeCount(passes[1], NameOf(n)) = 1
          /\ OutEdgesWrittenOnce(passes[1], n)

\* an entry node with two children, one of which has an out-edge of its own
C5_Witness ==
  /\ Len(passes) >= 1
  /\ printer.suppressRoots
  /\ printer.format = "dot"
  /\ \E e \in Entries : \E x, y \in Reachable \ Entries :
       /\ x # y
       /\ {x, y} \subseteq Range(heap[e].out_edges)
       /\ y \in Range(heap[x].out_edges)
       /\ NodeCount(passes[1], NameOf(x)) = 1
       /\ NodeCount(passes[1], NameOf(y)) = 1
       /\ EdgeCount(passes[1], NameOf(x), NameOf(y)) = 1
       /\ EdgeCount(passes[1], NameOf(e), NameOf(x)) = 0

\* the number of edges of the graph
EdgeTotal(h) == SeqSum([n \in 1..Len(h) |-> Len(h[n].out_edges)])
NamesOf(h) == {h[n].name : n \in 1..Len(h)}

IsBlank(line) == Strip(line) = <<>>
\* 'KEY' or 'KEY=': a key without separators, the right-hand side absent or empty
IsKeyNoNeighbors(line) ==
  LET t == Strip(line)
  IN  /\ t # <<>>
      /\ \A i \in 1..Len(t) : t[i] = "=" => i = Len(t)
      /\ \A i \in 1..Len(t) : t[i] # ","
      /\ t[1] # "="
KeyOf(line) == Split(Strip(line), "=")[1]

\* C8: parsing a blank line leaves the graph unchanged, and parsing 'KEY' or
\* 'KEY=' adds no edge and creates no node other than KEY.
C8_EmptyRightHandSide ==
  [][lines' # lines =>
       LET line == lines'[Len(lines')]
       IN  /\ IsBlank(line) => heap' = heap /\ nodes' = nodes
           /\ IsKeyNoNeighbors(line) =>
                /\ EdgeTotal(heap') = EdgeTotal(heap)
                /\ NamesOf(heap') \subseteq NamesOf(heap) \cup {KeyOf(line)}]_vars

(***************************************************************************)
(*                                PART II                                  *)
(*                                                                         *)
(* A node name is a sequence of tokens: the double quote, the colon and    *)
(* colon-free words.  The names of the model are double-quoted or          *)
(* colon-free identifiers followed at most by quotes, which pydot's Node   *)
(* and Edge constructors keep as they are.                                 *)
(*                                                                         *)
(* A pydot graph is [name, edges, nodes] as in pydot's obj_dict: edges     *)
(* maps a pair <<src, dst>> to the number of edges with these end points,  *)
(* nodes maps a name to the list of the nodes declared under it.  A node   *)
(* is [name, versions, shape, style, fillcolor]; an absent attribute is    *)
(* "None".  The 'versions' attribute is NoVersions (absent), BlankVersions *)
(* (the string " ") or the identity k >= 1 of the set object vsets[k].     *)
(***************************************************************************)
Quote == "\""
Colon == ":"

\* str.join
RECURSIVE Join(_, _)
Join(parts, sep) ==
  IF parts = <<>> THEN <<>>
  ELSE IF Len(parts) = 1 THEN parts[1]
  ELSE parts[1] \o <<sep>> \o Join(Tail(parts), sep)

\* the name "c1:c2:...:cn" as it stands in a dot file, quotes included
Name(comps) == <<Quote>> \o Join([i \in 1..Len(comps) |-> <<comps[i]>>], Colon) \o <<Quote>>

\* SquashVersionRule.MVN_VERSION_POSITION
MVN_VERSION_POSITION == 3

\* value.split(':')[:k]
FirstParts(value, k) ==
  LET parts == Split(value, Colon)
  IN  SubSeq(parts, 1, IF Len(parts) < k THEN Len(parts) ELSE k)

\* SquashVersionRule.squash_version keeping one component less
squash_version_one_less(value) ==
  Join(FirstParts(value, MVN_VERSION_POSITION - 1), Colon) \o <<Quote>>

\* SquashVersionRule.squash_version
squash_version(value) ==
  Join(FirstParts(value, MVN_VERSION_POSITION), Colon) \o <<Quote>>

NoVersions == 0
BlankVersions == -1
EmptyDict == [x \in {} |-> 0]

\* pydot.Node(name)
PydotNode(name) ==
  [name |-> name, versions |-> NoVersions, shape |-> "None", style |-> "None",
   fillcolor |-> "None"]

\* pydot.Dot(): the default graph name is G
PydotDot == [name |-> "G", edges |-> EmptyDict, nodes |-> EmptyDict]

\* Graph.get_node: the list of the nodes of that name
get_node(g, name) == IF name \in DOMAIN g.nodes THEN g.nodes[name] ELSE <<>>

\* Graph.add_node
add_node(g, n) ==
  IF n.name \in DOMAIN g.nodes
    THEN [g EXCEPT !.nodes[n.name] = Append(@, n)]
    ELSE [g EXCEPT !.nodes = @ @@ (n.name :> <<n>>)]

\* Graph.add_edge(pydot.Edge(src, dst)), k times
add_edges(g, src, dst, k) ==
  IF <<src, dst>> \in DOMAIN g.edges
    THEN [g EXCEPT !.edges[<<src, dst>>] = @ + k]
    ELSE [g EXCEPT !.edges = @ @@ (<<src, dst>> :> k)]

add_edge(g, src, dst) == add_edges(g, src, dst, 1)

\* Graph.del_edge(src, dst) without index: every edge between the two goes
del_edge(g, src, dst) ==
  [g EXCEPT !.edges = [e \in DOMAIN g.edges \ {<<src, dst>>} |-> g.edges[e]]]

\* Python truth of a 'versions' value in the heap of sets vs
Truthy(vs, v) == v = BlankVersions \/ (v >= 1 /\ vs[v] # {})

\* Python truth of a style value
StyleSet(style) == style # "None" /\ style # ""

(***************************************************************************)
(* SquashVersionRule.  A state s = [g, vsets]: a graph and the set objects.*)
(***************************************************************************)
\* SquashVersionRule.tag_version
tag_version(s, version_name) ==
  LET no_version_name == squash_version(version_name)
      nlist == get_node(s.g, no_version_name)
      g1 == IF Len(nlist) = 0 THEN add_node(s.g, PydotNode(no_version_name)) ELSE s.g
      versions == g1.nodes[no_version_name][1].versions
      fresh == ~Truthy(s.vsets, versions)
      vs1 == IF fresh THEN Append(s.vsets, {}) ELSE s.vsets
      ref == IF fresh THEN Len(vs1) ELSE versions
      g2 == IF fresh THEN [g1 EXCEPT !.nodes[no_version_name][1].versions = ref] ELSE g1
  IN  [g |-> g2, vsets |-> [vs1 EXCEPT ![ref] = @ \cup {version_name}]]

\* SquashVersionRule.apply on the edge <<old_src, old_dst>>
squash_apply(s, edge) ==
  LET old_src == edge[1]
      old_dst == edge[2]
      new_src == squash_version(old_src)
      new_dst == squash_version(old_dst)
      s1 == tag_version(s, old_dst)
  IN  [s1 EXCEPT !.g = add_edge(del_edge(s1.g, old_src, old_dst), new_src, new_dst)]

\* the edges of get_edges() with the keys of the edge dict in the given order
RECURSIVE Repeat(_, _)
Repeat(x, k) == IF k = 0 THEN <<>> ELSE <<x>> \o Repeat(x, k - 1)

RECURSIVE EdgeList(_, _)
EdgeList(g, keys) ==
  IF keys = <<>> THEN <<>>
  ELSE Repeat(Head(keys), g.edges[Head(keys)]) \o EdgeList(g, Tail(keys))

\* the orders in which a dict's keys can be iterated
KeyOrders(S) ==
  {o \in [1..Cardinality(S) -> S] : \A i, j \in 1..Cardinality(S) : i # j => o[i] # o[j]}

\* GraphProcessor.do_squash_versions over the snapshot es of the edges
RECURSIVE do_squash_versions(_, _)
do_squash_versions(s, es) ==
  IF es = <<>> THEN s ELSE do_squash_versions(squash_apply(s, Head(es)), Tail(es))

\* GraphProcessor.DEFAULT_COLORS
IntersectColor == "#00FF00"
ConflictColor == "#ffffff"
NonIntersectList ==
  <<"#ccffff", "#FF99FF", "#CCFF66", "#FF9966", "#6600FF", "#FF0033", "#FFFF00", "#CCCCCC">>

\* SquashVersionRule.clean_version_tag (len(" ") is 1)
clean_version_tag(vs, node) ==
  LET versions == node.versions
      conflict == Truthy(vs, versions) /\ versions >= 1 /\ Cardinality(vs[versions]) > 1
      n1 == IF conflict THEN [node EXCEPT !.shape = "tripleoctagon"] ELSE node
      n2 == IF conflict /\ ~StyleSet(node.style)
              THEN [n1 EXCEPT !.style = "filled", !.fillcolor = ConflictColor]
              ELSE n1
  IN  [n2 EXCEPT !.versions = BlankVersions]

(***************************************************************************)
(* GraphProcessor.  A state s = [g, vsets]: the merged graph and the set   *)
(* objects.  The copy nn of a node made by merge_graphs holds the same     *)
(* attribute values as the input's node, its 'versions' set object         *)
(* included.                                                               *)
(***************************************************************************)
\* the body of the node loop of merge_graphs, with the later input's
\* 'versions' replacing the merged node's
merge_node_overwrite(s, n) ==
  LET nn == n
      mn == get_node(s.g, n.name)
  IN  IF Len(mn) > 0
        THEN IF Truthy(s.vsets, nn.versions)
               THEN [s EXCEPT !.g.nodes[n.name][1].versions = nn.versions]
               ELSE s
        ELSE [s EXCEPT !.g = add_node(s.g, nn)]

\* the body of the node loop of merge_graphs, for the node n of an input
merge_node(s, n) ==
  LET nn == n
      mn == get_node(s.g, n.name)
  IN  IF Len(mn) > 0
        THEN LET mversions == mn[1].versions
                 nversions == nn.versions
             IN  IF Truthy(s.vsets, mversions) /\ Truthy(s.vsets, nversions)
                   THEN [s EXCEPT !.vsets[mversions] = @ \cup s.vsets[nversions]]
                   ELSE IF Truthy(s.vsets, nversions)
                     THEN [s EXCEPT !.g.nodes[n.name][1].versions = nversions]
                     ELSE s
        ELSE [s EXCEPT !.g = add_node(s.g, nn)]

RECURSIVE merge_node_list(_, _)
merge_node_list(s, ns) ==
  IF ns = <<>> THEN s ELSE merge_node_list(merge_node(s, Head(ns)), Tail(ns))

\* for n in g.get_nodes(): nodes of different names do not meet in the loop
\* body, so the names are taken in any one order
RECURSIVE merge_nodes(_, _, _)
merge_nodes(s, g, names) ==
  IF names = {} THEN s
  ELSE LET name == CHOOSE x \in names : TRUE
       IN  merge_nodes(merge_node_list(s, g.nodes[name]), g, names \ {name})

\* for e in g.get_edges(): merged.add_edge(...)
RECURSIVE merge_edges(_, _, _)
merge_edges(m, g, keys) ==
  IF keys = {} THEN m
  ELSE LET e == CHOOSE x \in keys : TRUE
       IN  merge_edges(add_edges(m, e[1], e[2], g.edges[e]), g, keys \ {e})

\* GraphProcessor.merge_graphs, from the graph gs[i] on
RECURSIVE merge_from(_, _, _)
merge_from(s, gs, i) ==
  IF i > Len(gs) THEN s
  ELSE LET s1 == [s EXCEPT !.g = merge_edges(s.g, gs[i], DOMAIN gs[i].edges)]
       IN  merge_from(merge_nodes(s1, gs[i], DOMAIN gs[i].nodes), gs, i + 1)

\* GraphProcessor.merge_graphs
merge_graphs(gs, vs) == merge_from([g |-> PydotDot, vsets |-> vs], gs, 1)

\* the names touched by an edge of g
EdgeNodeSet(g) == {e[1] : e \in DOMAIN g.edges} \cup {e[2] : e \in DOMAIN g.edges}

\* reduce(lambda x, y: x.intersection(y), node_sets, node_sets[0])
RECURSIVE ReduceIntersection(_, _)
ReduceIntersection(sets, acc) ==
  IF sets = <<>> THEN acc ELSE ReduceIntersection(Tail(sets), acc \cap Head(sets))

\* reduce(lambda x, y: x.difference(y), minus_self_set, self_set)
RECURSIVE ReduceDifference(_, _)
ReduceDifference(sets, acc) ==
  IF sets = <<>> THEN acc ELSE ReduceDifference(Tail(sets), acc \ Head(sets))

\* GraphProcessor.intersecting_nodes, for a list of at least one graph
intersecting_nodes(gs) ==
  LET node_sets == [i \in 1..Len(gs) |-> EdgeNodeSet(gs[i])]
  IN  [node_sets |-> node_sets,
       intersection |-> ReduceIntersection(node_sets, node_sets[1])]

\* a dict after d[key] = value
DictSet(d, key, value) ==
  [k \in DOMAIN d \cup {key} |-> IF k = key THEN value ELSE d[k]]

\* the loop of GraphProcessor.non_intersecting_nodes_per_graph from i on
RECURSIVE non_intersecting_from(_, _, _, _)
non_intersecting_from(gs, node_sets, i, non_intersect) ==
  IF i > Len(gs) THEN non_intersect
  ELSE LET gname == gs[i].name
           self_set == node_sets[i]
           minus_self_set == SubSeq(node_sets, 1, i - 1) \o <<{}>>
                             \o SubSeq(node_sets, i + 1, Len(node_sets))
       IN  non_intersecting_from(gs, node_sets, i + 1,
             DictSet(non_intersect, gname, ReduceDifference(minus_self_set, self_set)))

\* GraphProcessor.non_intersecting_nodes_per_graph
non_intersecting_nodes_per_graph(gs, node_sets) ==
  non_intersecting_from(gs, node_sets, 1, EmptyDict)

\* NodeStyleRule.globalRule({'fillcolor': color, 'style': 'filled'}).apply_node:
\* the pattern ^.*$ matches every name of the model
apply_node(g, node_name, color) ==
  LET g1 == IF Len(get_node(g, node_name)) = 0 THEN add_node(g, PydotNode(node_name)) ELSE g
  IN  [g1 EXCEPT !.nodes[node_name][1].fillcolor = color,
                 !.nodes[node_name][1].style = "filled"]

\* for y in names: style.apply_node(final_graph, y)
RECURSIVE apply_nodes(_, _, _)
apply_nodes(g, names, color) ==
  IF names = {} THEN g
  ELSE LET y == CHOOSE x \in names : TRUE
       IN  apply_nodes(apply_node(g, y, color), names \ {y}, color)

\* the loop of process_graphs over non_intersect, its keys taken in the order
\* keys: s = [g, palette]
RECURSIVE color_non_intersect(_, _, _)
color_non_intersect(s, non_intersect, keys) ==
  IF keys = <<>> THEN s
  ELSE LET color == Head(s.palette)
           g1 == apply_nodes(s.g, non_intersect[Head(keys)], color)
       IN  color_non_intersect([g |-> g1, palette |-> Tail(s.palette)],
                               non_intersect, Tail(keys))

(***************************************************************************)
(* The input graphs: what pydot.graph_from_dot_file returns for the dot    *)
(* files given.  A dot file names its graph and lists edges and, possibly, *)
(* nodes with attributes.                                                  *)
(***************************************************************************)
Bar1 == Name(<<"com.foo", "bar", "1.0", "jar">>)
Bar2 == Name(<<"com.foo", "bar", "2.0", "jar">>)
Baz2 == Name(<<"com.foo", "baz", "2.0", "jar">>)
Baz3 == Name(<<"com.foo", "baz", "3.0", "jar">>)
\* group:artifact:type:version, as Maven's dependency:tree writes them
BarJar1 == Name(<<"com.foo", "bar", "jar", "1.0">>)
BarJar2 == Name(<<"com.foo", "bar", "jar", "2.0">>)
BazJar2 == Name(<<"com.foo", "baz", "jar", "2.0">>)
BazJar3 == Name(<<"com.foo", "baz", "jar", "3.0">>)
BazJar == Name(<<"com.foo", "baz", "jar">>)

RECURSIVE WithEdges(_, _)
WithEdges(g, es) ==
  IF es = <<>> THEN g ELSE WithEdges(add_edge(g, Head(es)[1], Head(es)[2]), Tail(es))

DotFile(name, es) == WithEdges([PydotDot EXCEPT !.name = name], es)

GraphBar1 == DotFile("G1", << <<Bar1, Baz2>> >>)
GraphBar2 == DotFile("G2", << <<Bar2, Baz3>> >>)
GraphJar1 == DotFile("M1", << <<BarJar1, BazJar2>> >>)
GraphJar2 == DotFile("M2", << <<BarJar2, BazJar3>> >>)
\* another dot file of a graph named M1: a parallel edge, two versions of baz,
\* and the node com.foo:baz:jar declared with a style of its own
GraphJar3 ==
  add_node(DotFile("M1", << <<BarJar1, BazJar3>>, <<BarJar1, BazJar3>>, <<BarJar1, BazJar2>> >>),
           [PydotNode(BazJar) EXCEPT !.style = "bold"])

InputGraphs == {GraphBar1, GraphBar2, GraphJar1, GraphJar2, GraphJar3}

(***************************************************************************)
(* Actions of Part II, in the order of process_graphs.                     *)
(***************************************************************************)
\* graphs.append(pydot.graph_from_dot_file(x))
LoadGraph ==
  /\ phase = "load"
  /\ Len(graphs) < MaxGraphs
  /\ \A i \in 1..Len(squashed) : ~squashed[i]
  /\ \E g \in InputGraphs :
       /\ graphs' = Append(graphs, g)
       /\ loaded' = Append(loaded, g)
       /\ squashed' = Append(squashed, FALSE)
  /\ UNCHANGED <<vsets, vsets0, merged, analysis, palette, phase>>
  /\ UNCHANGED adjVars

\* GraphProcessor.do_squash_versions(g) for one of the loaded graphs, the
\* graphs being taken in list order as process_graphs does; the edge dict is
\* iterated in any order of its keys
SquashVersions ==
  /\ phase = "load"
  /\ \E i \in 1..Len(graphs) :
       /\ \A j \in i..Len(graphs) : ~squashed[j]
       /\ \E order \in KeyOrders(DOMAIN graphs[i].edges) :
            LET s == do_squash_versions([g |-> graphs[i], vsets |-> vsets],
                                        EdgeList(graphs[i], order))
            IN  /\ graphs' = [graphs EXCEPT ![i] = s.g]
                /\ vsets' = s.vsets
       /\ squashed' = [squashed EXCEPT ![i] = TRUE]
  /\ UNCHANGED <<loaded, vsets0, merged, analysis, palette, phase>>
  /\ UNCHANGED adjVars

\* final_graph = GraphProcessor.merge_graphs(graphs)
MergeGraphs ==
  /\ phase = "load"
  /\ Len(graphs) >= 1
  /\ LET s == merge_graphs(graphs, vsets)
     IN  /\ merged' = s.g
         /\ vsets' = s.vsets
  /\ vsets0' = vsets
  /\ phase' = "merged"
  /\ UNCHANGED <<loaded, graphs, squashed, analysis, palette>>
  /\ UNCHANGED adjVars

\* the analyze block of process_graphs; the dict non_intersect is iterated in
\* any order of its keys, and pop(0) needs a colour for each of them
Analyze ==
  /\ phase = "merged"
  /\ Len(graphs) > 1
  /\ LET r == intersecting_nodes(graphs)
         g1 == apply_nodes(merged, r.intersection, IntersectColor)
         non_intersect == non_intersecting_nodes_per_graph(graphs, r.node_sets)
     IN  /\ Len(palette) >= Cardinality(DOMAIN non_intersect)
         /\ analysis' = [node_sets |-> r.node_sets, intersection |-> r.intersection,
                         non_intersect |-> non_intersect]
         /\ \E keys \in KeyOrders(DOMAIN non_intersect) :
              LET s == color_non_intersect([g |-> g1, palette |-> palette],
                                           non_intersect, keys)
              IN  /\ merged' = s.g
                  /\ palette' = s.palette
  /\ phase' = "analyzed"
  /\ UNCHANGED <<loaded, graphs, squashed, vsets, vsets0>>
  /\ UNCHANGED adjVars

\* for n in final_graph.get_nodes(): SquashVersionRule.clean_version_tag(n)
CleanVersionTags ==
  /\ phase \in {"merged", "analyzed"}
  /\ merged' = [merged EXCEPT !.nodes =
                  [name \in DOMAIN merged.nodes |->
                     [k \in 1..Len(merged.nodes[name]) |->
                        clean_version_tag(vsets, merged.nodes[name][k])]]]
  /\ phase' = "cleaned"
  /\ UNCHANGED <<loaded, graphs, squashed, vsets, vsets0, analysis, palette>>
  /\ UNCHANGED adjVars

\* the analyze block when the palette holds fewer colours than non_intersect has
\* keys: the loop colours one key per colour left, then pop(0) on the empty
\* list raises IndexError and process_graphs returns nothing
AnalyzeRunsOut ==
  /\ phase = "merged"
  /\ Len(graphs) > 1
  /\ LET r == intersecting_nodes(graphs)
         g1 == apply_nodes(merged, r.intersection, IntersectColor)
         non_intersect == non_intersecting_nodes_per_graph(graphs, r.node_sets)
     IN  /\ Len(palette) < Cardinality(DOMAIN non_intersect)
         /\ analysis' = [node_sets |-> r.node_sets, intersection |-> r.intersection,
                         non_intersect |-> non_intersect]
         /\ \E keys \in KeyOrders(DOMAIN non_intersect) :
              LET s == color_non_intersect([g |-> g1, palette |-> palette],
                                           non_intersect,
                                           SubSeq(keys, 1, Len(palette)))
              IN  /\ merged' = s.g
                  /\ palette' = s.palette
  /\ phase' = "failed"
  /\ UNCHANGED <<loaded, graphs, squashed, vsets, vsets0>>
  /\ UNCHANGED adjVars

\* process_graphs is entered again in the same interpreter: its locals start
\* afresh, the class attribute DEFAULT_COLORS is the one the last run left
ProcessGraphsAgain ==
  /\ phase \in {"merged", "analyzed", "cleaned", "failed"}
  /\ loaded' = <<>>
  /\ graphs' = <<>>
  /\ squashed' = <<>>
  /\ vsets' = <<>>
  /\ vsets0' = <<>>
  /\ merged' = PydotDot
  /\ analysis' = [node_sets |-> <<>>, intersection |-> {}, non_intersect |-> EmptyDict]
  /\ phase' = "load"
  /\ UNCHANGED palette
  /\ UNCHANGED adjVars

\* GraphProcessor.maximum_input_graphs()
maximum_input_graphs == Len(palette)

(***************************************************************************)
(* Claims of Part II.                                                      *)
(***************************************************************************)
\* the contents of a 'versions' attribute in the heap of sets vs
VersionsOf(vs, v) == IF v >= 1 THEN vs[v] ELSE {}

GraphIds == 1..Len(graphs)
DeclaredNames == UNION {DOMAIN graphs[i].nodes : i \in GraphIds}
AllEdgeKeys == UNION {DOMAIN graphs[i].edges : i \in GraphIds}
EdgesIn(g, e) == IF e \in DOMAIN g.edges THEN g.edges[e] ELSE 0

\* the union of the 'versions' sets, as they were when merge_graphs was
\* called, of the inputs' nodes named name
InputVersions(name) ==
  UNION {VersionsOf(vsets0, graphs[i].nodes[name][k].versions) :
           <<i, k>> \in {p \in GraphIds \X (1..4) :
                           /\ name \in DOMAIN graphs[p[1]].nodes
                           /\ p[2] <= Len(graphs[p[1]].nodes[name])}}

\* both graphs of the run were squashed
BothSquashed == Len(graphs) = 2 /\ squashed[1] /\ squashed[2]

\* C6 as stated: graph 1 with com.foo:bar:1.0:jar -> com.foo:baz:2.0:jar and
\* graph 2 with com.foo:bar:2.0:jar -> com.foo:baz:3.0:jar, squashed and
\* merged, have a single node holding both destination names in 'versions',
\* which clean_version_tag gives the conflict shape.
C6_SingleConflictNode ==
  (loaded = <<GraphBar1, GraphBar2>> /\ BothSquashed)
  => /\ phase = "merged" =>
          \E name \in DOMAIN merged.nodes :
            /\ Len(merged.nodes[name]) = 1
            /\ {Baz2, Baz3} \subseteq VersionsOf(vsets, merged.nodes[name][1].versions)
     /\ phase = "cleaned" =>
          \E name \in DOMAIN merged.nodes : merged.nodes[name][1].shape = "tripleoctagon"

Baz20 == Name(<<"com.foo", "baz", "2.0">>)
Baz30 == Name(<<"com.foo", "baz", "3.0">>)

\* C6 amended: squash_version keeps the first three components.  The claim's
\* two graphs squash to the distinct destination nodes com.foo:baz:2.0 and
\* com.foo:baz:3.0, each with one name in 'versions', and clean_version_tag
\* marks no node; graphs with com.foo:bar:jar:1.0 -> com.foo:baz:jar:2.0 and
\* com.foo:bar:jar:2.0 -> com.foo:baz:jar:3.0 have the single merged node
\* com.foo:baz:jar with both destination names in 'versions', which
\* clean_version_tag gives the conflict shape.
C6_SquashKeepsThreeComponents ==
  /\ (loaded = <<GraphBar1, GraphBar2>> /\ BothSquashed) =>
       /\ phase = "merged" =>
            /\ DOMAIN merged.nodes = {Baz20, Baz30}
            /\ Len(merged.nodes[Baz20]) = 1 /\ Len(merged.nodes[Baz30]) = 1
            /\ VersionsOf(vsets, merged.nodes[Baz20][1].versions) = {Baz2}
            /\ VersionsOf(vsets, merged.nodes[Baz30][1].versions) = {Baz3}
       /\ phase = "cleaned" =>
            \A name \in DOMAIN merged.nodes :
              \A k \in 1..Len(merged.nodes[name]) :
                merged.nodes[name][k].shape # "tripleoctagon"
  /\ (loaded = <<GraphJar1, GraphJar2>> /\ BothSquashed) =>
       /\ phase = "merged" =>
            /\ DOMAIN merged.nodes = {BazJar}
            /\ Len(merged.nodes[BazJar]) = 1
            /\ VersionsOf(vsets, merged.nodes[BazJar][1].versions) = {BazJar2, BazJar3}
       /\ phase = "cleaned" =>
            /\ Len(merged.nodes[BazJar]) = 1
            /\ merged.nodes[BazJar][1].shape = "tripleoctagon"
            /\ merged.nodes[BazJar][1].versions = BlankVersions

C6_Witness ==
  /\ loaded = <<GraphJar1, GraphJar2>>
  /\ BothSquashed
  /\ phase = "cleaned"
  /\ merged.nodes[BazJar][1].shape = "tripleoctagon"

\* C7: the graph merge_graphs returns has, for every node name declared in an
\* input, exactly one node, whose 'versions' set is the union of the
\* 'versions' sets of the inputs' nodes of that name, and has every edge as
\* often as the inputs have it together.
C7_MergeUnionsVersions ==
  phase = "merged" =>
    /\ \A name \in DeclaredNames :
         /\ Len(get_node(merged, name)) = 1
         /\ VersionsOf(vsets, merged.nodes[name][1].versions) = InputVersions(name)
    /\ DOMAIN merged.edges = AllEdgeKeys
    /\ \A e \in AllEdgeKeys :
         merged.edges[e] = SeqSum([i \in GraphIds |-> EdgesIn(graphs[i], e)])

\* three inputs, a name whose nodes hold different version sets in two of
\* them, and an edge that two inputs have
C7_Witness ==
  /\ phase = "merged"
  /\ Len(graphs) = 3
  /\ \E name \in DeclaredNames : \E i, j \in GraphIds :
       /\ i < j
       /\ name \in DOMAIN graphs[i].nodes \cap DOMAIN graphs[j].nodes
       /\ VersionsOf(vsets0, graphs[i].nodes[name][1].versions) # {}
       /\ VersionsOf(vsets0, graphs[j].nodes[name][1].versions) # {}
       /\ VersionsOf(vsets0, graphs[i].nodes[name][1].versions)
            # VersionsOf(vsets0, graphs[j].nodes[name][1].versions)
       /\ Cardinality(VersionsOf(vsets, merged.nodes[name][1].versions)) >= 2
  /\ \E e \in AllEdgeKeys : \E i, j \in GraphIds :
       i < j /\ e \in DOMAIN graphs[i].edges \cap DOMAIN graphs[j].edges /\ merged.edges[e] >= 2

\* C9: intersecting_nodes returns each graph's set of the names touched by an
\* edge and the intersection of these sets; non_intersecting_nodes_per_graph
\* returns a mapping holding, for each input graph, the names of its set that
\* are in no other graph's set.
C9_PerGraphNonIntersect ==
  phase = "analyzed" =>
    /\ \A i \in GraphIds : analysis.node_sets[i] = EdgeNodeSet(graphs[i])
    /\ analysis.intersection =
         {n \in EdgeNodeSet(graphs[1]) : \A i \in GraphIds : n \in EdgeNodeSet(graphs[i])}
    /\ \A i \in GraphIds :
         /\ graphs[i].name \in DOMAIN analysis.non_intersect
         /\ analysis.non_intersect[graphs[i].name] =
              {n \in EdgeNodeSet(graphs[i]) :
                 \A j \in GraphIds \ {i} : n \notin EdgeNodeSet(graphs[j])}

\* C10: merge_graphs leaves the 'versions' sets of its inputs' nodes as they
\* were when it was called.
C10_MergeLeavesInputsAlone ==
  phase # "load" =>
    \A i \in GraphIds : \A name \in DOMAIN graphs[i].nodes :
      \A k \in 1..Len(graphs[i].nodes[name]) :
        VersionsOf(vsets, graphs[i].nodes[name][k].versions)
          = VersionsOf(vsets0, graphs[i].nodes[name][k].versions)

\* C11: process_graphs leaves the palette DEFAULT_COLORS['non_intersect_list']
\* unchanged: after any sequence of runs maximum_input_graphs() returns what
\* it returned before the first run, and no run runs out of palette colours.
C11_PaletteUnchanged ==
  /\ maximum_input_graphs = Len(NonIntersectList)
  /\ phase # "failed"

InitMvn ==
  /\ loaded = <<>>
  /\ graphs = <<>>
  /\ squashed = <<>>
  /\ vsets = <<>>
  /\ vsets0 = <<>>
  /\ merged = PydotDot
  /\ analysis = [node_sets |-> <<>>, intersection |-> {}, non_intersect |-> EmptyDict]
  /\ palette = NonIntersectList
  /\ phase = "load"

Init == InitAdj /\ InitMvn

Next == NewPrinter \/ ParseLine \/ PrintGraph

Spec == Init /\ [][Next]_vars

NextMvn == LoadGraph \/ SquashVersions \/ MergeGraphs \/ Analyze \/ CleanVersionTags

SpecMvn == Init /\ [][NextMvn]_vars

NextRuns == NextMvn \/ AnalyzeRunsOut \/ ProcessGraphsAgain

SpecRuns == Init /\ [][NextRuns]_vars

=============================================================================
